---- MODULE Spec2Model ----
(***************************************************************************)
(* Western Heights Inc. website backend: the analytics tracker             *)
(* (class WebsiteAnalytics) over its SQLite store, and the Flask endpoints *)
(* that call it.                                                           *)
(*                                                                         *)
(* The store is one SQLite file in rollback-journal mode.  Every call of   *)
(* the tracker opens its own connection.  A connection's first write       *)
(* statement begins a transaction and takes the file's write lock; its     *)
(* statements act on a private view of the tables until commit publishes   *)
(* the view and rollback (or close) discards it.                           *)
(*                                                                         *)
(* Time is counted in ticks.  CURRENT_TIMESTAMP is the UTC clock cut to    *)
(* whole seconds; datetime.now() is the host's local clock at full         *)
(* resolution.                                                             *)
(***************************************************************************)
EXTENDS Integers, Sequences, FiniteSets, TLC

\* ------------------------------------------------------------------ bounds
MaxCalls == 2          \* calls of the tracker started in one behaviour
MaxClock == 2          \* ticks the clock may advance in one behaviour
TicksPerSec == 2       \* resolution of datetime.now() within one second
SecPerDay == 2         \* seconds in one calendar day
MaxRows == 2           \* events of a store the report claims start from
MaxText == 2           \* characters of a form field

\* --------------------------------------------------------------- input sets
Procs == {"c1", "c2"}                 \* request handlers, one connection each
SessionIds == {"s1", "s2"}            \* session tokens a client may send
None == "None"                        \* Python None / SQL NULL
Urls == {"/a"}                       \* page_url values a payload may carry
TzOffsets == {-1, 0, 1}               \* host UTC offset, in seconds
StartClock == 2 * TicksPerSec         \* UTC clock at start
NoProc == "none"

VARIABLES
    page_views,     \* committed rows of table page_views, in id order
    sessions,       \* committed rows of table sessions, in rowid order
    conversions,    \* committed rows of table conversions, in id order
    lock,           \* the connection holding the store's write lock
    txn,            \* per connection: its open transaction's view of the tables
    pc,             \* per connection: where its handler stands
    call,           \* per connection: the arguments and locals of the running call
    outcome,        \* per connection: how its last call ended
    clock,          \* UTC clock, in ticks
    tz,             \* host UTC offset, in seconds
    ncalls,         \* calls started so far
    ok_views,       \* per session_id: track_page_view calls that committed
    raced,          \* session_ids two track_page_view calls ran on at once
    daily_stats,    \* committed rows of table daily_stats
    handles,        \* connections opened and not closed
    submissions,    \* files of the submissions directory, by name
    outbox,         \* mails handed to the SMTP server
    request         \* per handler: the /api/contact request it serves

vars == <<page_views, sessions, conversions, lock, txn, pc, call, outcome,
          clock, tz, ncalls, ok_views, raced, daily_stats, handles,
          submissions, outbox, request>>

\* ------------------------------------------------------------ time values
\* A stored datetime: the instant in ticks and the separator of its text.
CurrentTimestamp(c) ==
    [ticks |-> (c \div TicksPerSec) * TicksPerSec, sep |-> " "]

LocalNow(c, off) == c + off * TicksPerSec

IsoFormat(t) == [ticks |-> t, sep |-> "T"]

\* ------------------------------------------------------------ dict access
Get(data, key, default) ==
    IF key \in DOMAIN data THEN data[key] ELSE default

\* ---------------------------------------------------------------- inputs
\* The key-value payload of a tracking request; any key may be missing.
PayloadKeys == {"session_id", "page_url"}

KeyValues(k) ==
    CASE k = "session_id" -> SessionIds
      [] k = "page_url"   -> Urls

Payloads ==
    UNION { { d \in [K -> SessionIds \cup Urls] :
                \A k \in K : d[k] \in KeyValues(k) } : K \in SUBSET PayloadKeys }

\* A form_data dictionary without keys.
EmptyDict == "{}"

\* What is converted: the contact form with its fields, or a form of the
\* pages reported by the browser with no fields or without form_data.
ConversionArgs ==
    {[session_id |-> s, conversion_type |-> k.conversion_type,
      conversion_value |-> 1, form_data |-> k.form_data] :
        s \in {"s1", None},
        k \in {[conversion_type |-> "contact_form", form_data |-> "filled"],
               [conversion_type |-> "form_submission",
                form_data |-> EmptyDict],
               [conversion_type |-> "form_submission", form_data |-> None]}}

\* ------------------------------------------------------------------ rows
\* INSERT INTO page_views: the ten bound columns and the timestamp default.
PageViewRow(data, ts) ==
    [session_id   |-> Get(data, "session_id", None),
     page_url     |-> Get(data, "page_url", ""),
     page_title   |-> Get(data, "page_title", ""),
     referrer     |-> Get(data, "referrer", ""),
     user_agent   |-> Get(data, "user_agent", ""),
     ip_address   |-> Get(data, "ip_address", ""),
     country      |-> Get(data, "country", "Unknown"),
     city         |-> Get(data, "city", "Unknown"),
     time_on_page |-> Get(data, "time_on_page", 0),
     scroll_depth |-> Get(data, "scroll_depth", 0),
     timestamp    |-> ts]

\* Variant: the inserted session starts with total_views 0.
SessionRowZero(data, first, last) ==
    [session_id        |-> Get(data, "session_id", None),
     user_id           |-> Get(data, "user_id", ""),
     device_type       |-> Get(data, "device_type", ""),
     browser           |-> Get(data, "browser", ""),
     os                |-> Get(data, "os", ""),
     screen_resolution |-> Get(data, "screen_resolution", ""),
     first_visit       |-> first,
     last_visit        |-> last,
     total_views       |-> 0]

\* The row the sessions INSERT proposes.
SessionRow(data, first, last) ==
    [session_id        |-> Get(data, "session_id", None),
     user_id           |-> Get(data, "user_id", ""),
     device_type       |-> Get(data, "device_type", ""),
     browser           |-> Get(data, "browser", ""),
     os                |-> Get(data, "os", ""),
     screen_resolution |-> Get(data, "screen_resolution", ""),
     first_visit       |-> first,
     last_visit        |-> last,
     total_views       |-> 1]

\* Rows of sess the proposed session_id conflicts with.  The key column is
\* TEXT PRIMARY KEY without NOT NULL: NULL conflicts with nothing.
Conflicts(sess, sid) ==
    IF sid = None THEN {}
    ELSE {i \in 1..Len(sess) : sess[i].session_id = sid}

\* Variant: the conflicting row is replaced by the proposed one (INSERT OR
\* REPLACE), which starts total_views again at 1.
UpsertSessionReplace(sess, data, first, last, last_upd) ==
    LET sid == Get(data, "session_id", None)
        hit == Conflicts(sess, sid)
    IN  IF hit = {}
        THEN Append(sess, SessionRow(data, first, last))
        ELSE [i \in 1..Len(sess) |->
                IF i \in hit THEN SessionRow(data, first, last_upd)
                ELSE sess[i]]

\* INSERT INTO sessions ... ON CONFLICT(session_id) DO UPDATE SET
\* last_visit = ?, total_views = total_views + 1
UpsertSession(sess, data, first, last, last_upd) ==
    LET sid == Get(data, "session_id", None)
        hit == Conflicts(sess, sid)
    IN  IF hit = {}
        THEN Append(sess, SessionRow(data, first, last))
        ELSE [i \in 1..Len(sess) |->
                IF i \in hit
                THEN [sess[i] EXCEPT !.last_visit = last_upd,
                                     !.total_views = @ + 1]
                ELSE sess[i]]

\* json.dumps(form_data) if form_data else None
DumpFormData(form_data) ==
    IF form_data \in {None, EmptyDict} THEN None ELSE "json"

\* INSERT INTO conversions: four bound columns, page_url NULL, timestamp default.
ConversionRow(args, ts) ==
    [session_id       |-> args.session_id,
     conversion_type  |-> args.conversion_type,
     conversion_value |-> args.conversion_value,
     page_url         |-> None,
     form_data        |-> DumpFormData(args.form_data),
     timestamp        |-> ts]

\* ------------------------------------------------------------ connections
NoTxn == [open |-> FALSE, page_views |-> <<>>, sessions |-> <<>>,
          conversions |-> <<>>]

NoCall == [op |-> "none", data |-> <<>>]

NoOutcome == [op |-> "none", result |-> "none", value |-> None,
              stored |-> FALSE, step |-> "none"]

\* Variant: writers are not serialised.
CanWriteUnlocked(lk, p) == TRUE

\* The write lock is free for p: no other connection has a transaction open.
CanWrite(lk, p) == lk \in {NoProc, p}

\* The first write statement of a connection begins its transaction on the
\* committed tables; later statements go on in the transaction's view.
View(p) ==
    IF txn[p].open THEN txn[p]
    ELSE [open |-> TRUE, page_views |-> page_views, sessions |-> sessions,
          conversions |-> conversions]

\* The tracking methods end without a return statement: the caller gets None
\* whether the event was stored or the except branch ran at `step`.
Returned(op, stored, step) ==
    [op |-> op, result |-> "returned", value |-> None, stored |-> stored,
     step |-> step]

\* An exception left the method.
Raised(op) ==
    [op |-> op, result |-> "raised", value |-> None, stored |-> FALSE,
     step |-> "connect"]

\* Variant: the page view is also written to the conversions table.
InsertPageViewBoth(view, row) ==
    [view EXCEPT !.page_views = Append(@, row),
                 !.conversions = Append(@, row)]

\* cursor.execute(INSERT INTO page_views ...) on a transaction's view
InsertPageView(view, row) ==
    [view EXCEPT !.page_views = Append(@, row)]

\* cursor.execute(INSERT INTO conversions ...) on a transaction's view
InsertConversion(view, row) ==
    [view EXCEPT !.conversions = Append(@, row)]

\* sqlite3.connect(...) returned a connection.
Open == handles' = handles + 1

\* conn.close()
Close == handles' = handles - 1

\* Variant: the except branch keeps the page views written so far.
RollbackPartial(p, op, step) ==
    /\ page_views' = IF txn[p].open THEN txn[p].page_views ELSE page_views
    /\ txn' = [txn EXCEPT ![p] = NoTxn]
    /\ lock' = IF lock = p THEN NoProc ELSE lock
    /\ pc' = [pc EXCEPT ![p] = "idle"]
    /\ call' = [call EXCEPT ![p] = NoCall]
    /\ outcome' = [outcome EXCEPT ![p] = Returned(op, FALSE, step)]
    /\ Close
    /\ UNCHANGED <<sessions, conversions, ok_views>>

\* except: log, conn.rollback(); finally: conn.close(); the method returns.
\* The transaction's view is dropped and the lock released.
Rollback(p, op, step) ==
    /\ txn' = [txn EXCEPT ![p] = NoTxn]
    /\ lock' = IF lock = p THEN NoProc ELSE lock
    /\ pc' = [pc EXCEPT ![p] = "idle"]
    /\ call' = [call EXCEPT ![p] = NoCall]
    /\ outcome' = [outcome EXCEPT ![p] = Returned(op, FALSE, step)]
    /\ Close
    /\ UNCHANGED <<page_views, sessions, conversions, ok_views>>

\* conn.commit() succeeded: the view becomes the committed tables; then log,
\* conn.close() and the method returns.
Commit(p, op) ==
    /\ page_views' = txn[p].page_views
    /\ sessions' = txn[p].sessions
    /\ conversions' = txn[p].conversions
    /\ txn' = [txn EXCEPT ![p] = NoTxn]
    /\ lock' = NoProc
    /\ pc' = [pc EXCEPT ![p] = "idle"]
    /\ call' = [call EXCEPT ![p] = NoCall]
    /\ outcome' = [outcome EXCEPT ![p] = Returned(op, TRUE, "none")]
    /\ Close

\* sqlite3.connect(self.db_file) stands before the try block: when it fails
\* the exception leaves the method.
ConnectFails(p, op) ==
    /\ outcome' = [outcome EXCEPT ![p] = Raised(op)]
    /\ UNCHANGED <<pc, call, handles>>

\* -------------------------------------------------------- track_page_view
\* The connections running track_page_view for session_id sid.
Running(sid) ==
    {q \in Procs : /\ call[q].op = "track_page_view"
                   /\ Get(call[q].data, "session_id", None) = sid}

\* The call starts with a payload of D: the connection is opened.
TrackPageViewConnect(p, D) ==
    /\ pc[p] = "idle"
    /\ ncalls < MaxCalls
    /\ ncalls' = ncalls + 1
    /\ \/ \E data \in D :
            /\ pc' = [pc EXCEPT ![p] = "pv_insert"]
            /\ call' = [call EXCEPT ![p] = [op |-> "track_page_view",
                                            data |-> data]]
            /\ outcome' = [outcome EXCEPT ![p] = NoOutcome]
            /\ Open
            /\ raced' = IF Running(Get(data, "session_id", None)) = {}
                        THEN raced
                        ELSE raced \cup {Get(data, "session_id", None)}
       \/ /\ ConnectFails(p, "track_page_view")
          /\ UNCHANGED raced
    /\ UNCHANGED <<page_views, sessions, conversions, lock, txn, clock, tz,
                   ok_views, daily_stats, submissions, outbox, request>>

track_page_view_connect(p) == TrackPageViewConnect(p, Payloads)

\* INSERT INTO page_views; timestamp takes CURRENT_TIMESTAMP.
track_page_view_insert(p) ==
    /\ pc[p] = "pv_insert"
    /\ \/ /\ CanWrite(lock, p)
          /\ \E d \in 0..1 :
                /\ clock + d <= StartClock + MaxClock
                /\ clock' = clock + d
                /\ txn' = [txn EXCEPT ![p] =
                       InsertPageView(View(p),
                           PageViewRow(call[p].data,
                                       CurrentTimestamp(clock + d)))]
          /\ lock' = p
          /\ pc' = [pc EXCEPT ![p] = "pv_upsert"]
          /\ UNCHANGED <<page_views, sessions, conversions, call, outcome,
                         ok_views, handles>>
       \/ /\ Rollback(p, "track_page_view", "insert")
          /\ UNCHANGED clock
    /\ UNCHANGED <<tz, ncalls, raced, daily_stats, submissions, outbox, request>>

\* The three datetime.now().isoformat() arguments, read one after the other,
\* then the sessions upsert.
track_page_view_upsert(p) ==
    /\ pc[p] = "pv_upsert"
    /\ \/ \E d0 \in 0..1, d1 \in 0..1, d2 \in 0..1 :
            LET first == LocalNow(clock + d0, tz)
                last == LocalNow(clock + d0 + d1, tz)
                last_upd == LocalNow(clock + d0 + d1 + d2, tz)
            IN  /\ clock + d0 + d1 + d2 <= StartClock + MaxClock
                /\ clock' = clock + d0 + d1 + d2
                /\ txn' = [txn EXCEPT ![p].sessions =
                       UpsertSession(@, call[p].data, IsoFormat(first),
                                     IsoFormat(last), IsoFormat(last_upd))]
                /\ pc' = [pc EXCEPT ![p] = "pv_commit"]
                /\ UNCHANGED <<page_views, sessions, conversions, lock, call,
                               outcome, ok_views, handles>>
       \/ /\ Rollback(p, "track_page_view", "upsert")
          /\ UNCHANGED clock
    /\ UNCHANGED <<tz, ncalls, raced, daily_stats, submissions, outbox, request>>

track_page_view_commit(p) ==
    /\ pc[p] = "pv_commit"
    /\ \/ /\ Commit(p, "track_page_view")
          /\ ok_views' = [ok_views EXCEPT
                 ![Get(call[p].data, "session_id", None)] = @ + 1]
       \/ Rollback(p, "track_page_view", "commit")
    /\ UNCHANGED <<clock, tz, ncalls, raced, daily_stats, submissions, outbox,
                   request>>

\* ------------------------------------------------------- track_conversion
\* The call starts with arguments of A: the connection is opened.
TrackConversionConnect(p, A) ==
    /\ pc[p] = "idle"
    /\ ncalls < MaxCalls
    /\ ncalls' = ncalls + 1
    /\ \/ \E args \in A :
            /\ pc' = [pc EXCEPT ![p] = "cv_insert"]
            /\ call' = [call EXCEPT ![p] = [op |-> "track_conversion",
                                            data |-> args]]
            /\ outcome' = [outcome EXCEPT ![p] = NoOutcome]
            /\ Open
       \/ ConnectFails(p, "track_conversion")
    /\ UNCHANGED <<page_views, sessions, conversions, lock, txn, clock, tz,
                   ok_views, raced, daily_stats, submissions, outbox, request>>

track_conversion_connect(p) == TrackConversionConnect(p, ConversionArgs)

\* INSERT INTO conversions; timestamp takes CURRENT_TIMESTAMP.
track_conversion_insert(p) ==
    /\ pc[p] = "cv_insert"
    /\ \/ /\ CanWrite(lock, p)
          /\ \E d \in 0..1 :
                /\ clock + d <= StartClock + MaxClock
                /\ clock' = clock + d
                /\ txn' = [txn EXCEPT ![p] =
                       InsertConversion(View(p),
                           ConversionRow(call[p].data,
                                         CurrentTimestamp(clock + d)))]
          /\ lock' = p
          /\ pc' = [pc EXCEPT ![p] = "cv_commit"]
          /\ UNCHANGED <<page_views, sessions, conversions, call, outcome,
                         ok_views, handles>>
       \/ /\ Rollback(p, "track_conversion", "insert")
          /\ UNCHANGED clock
    /\ UNCHANGED <<tz, ncalls, raced, daily_stats, submissions, outbox, request>>

track_conversion_commit(p) ==
    /\ pc[p] = "cv_commit"
    /\ \/ /\ Commit(p, "track_conversion")
          /\ UNCHANGED ok_views
       \/ Rollback(p, "track_conversion", "commit")
    /\ UNCHANGED <<clock, tz, ncalls, raced, daily_stats, submissions, outbox,
                   request>>

\* ---------------------------------------------------------- specification
\* No /api/contact request is being served.
\* No file name: save_submission returned None.
NoFile == <<>>

\* A handler that has served nothing: no form in hand, and no submission
\* saved nor request answered so far.
NoRequest == [state |-> "none", via |-> None, form |-> <<>>, session |-> None,
              filename |-> NoFile, data |-> <<>>, saved_file |-> NoFile,
              email_sent |-> FALSE, result |-> <<>>, status |-> 0,
              saves |-> 0, save_errors |-> 0, answered |-> 0]

\* daily_stats is created empty, no connection is open, the submissions
\* directory is created empty and nothing has been mailed.
NothingElse ==
    /\ daily_stats = <<>>
    /\ handles = 0
    /\ submissions = <<>>
    /\ outbox = <<>>
    /\ request = [p \in Procs |-> NoRequest]

Init ==
    /\ page_views = <<>>
    /\ sessions = <<>>
    /\ conversions = <<>>
    /\ lock = NoProc
    /\ txn = [p \in Procs |-> NoTxn]
    /\ pc = [p \in Procs |-> "idle"]
    /\ call = [p \in Procs |-> NoCall]
    /\ outcome = [p \in Procs |-> NoOutcome]
    /\ clock = StartClock
    /\ tz \in TzOffsets
    /\ ncalls = 0
    /\ ok_views = [s \in SessionIds \cup {None} |-> 0]
    /\ raced = {}
    /\ NothingElse

Next ==
    \E p \in Procs :
        \/ track_page_view_connect(p)
        \/ track_page_view_insert(p)
        \/ track_page_view_upsert(p)
        \/ track_page_view_commit(p)
        \/ track_conversion_connect(p)
        \/ track_conversion_insert(p)
        \/ track_conversion_commit(p)

Spec == Init /\ [][Next]_vars

\* ------------------------------------------------------------ calendar
TicksPerDay == TicksPerSec * SecPerDay

\* The text of a calendar date, 'YYYY-MM-DD', as strftime('%Y-%m-%d') and
\* SQL DATE() write it.
Ymd(day) == [kind |-> "ymd", day |-> day]

\* No date given (None or '').
NoDate == [kind |-> "none", day |-> 0]

\* A string that is not the text of a date, e.g. '2024-1-5' or 'garbage'.
BadDate == [kind |-> "text", day |-> 0]

\* SQL DATE(timestamp) of a stored 'YYYY-MM-DD HH:MM:SS'
DateOf(ts) == Ymd(ts.ticks \div TicksPerDay)

\* datetime.now().strftime('%Y-%m-%d'): the host's local calendar date
Today(c, off) == Ymd(LocalNow(c, off) \div TicksPerDay)

\* (datetime.now() - timedelta(days=days)).strftime('%Y-%m-%d')
CutoffDate(c, off, days) ==
    Ymd((LocalNow(c, off) - days * TicksPerDay) \div TicksPerDay)

\* ----------------------------------------------------------- SQL queries
TopPagesLimit == 10
ReferrersLimit == 10

\* BINARY collation order of the text values the store holds.
WideUrls == <<"/p01", "/p02", "/p03", "/p04", "/p05", "/p06", "/p07", "/p08",
              "/p09", "/p10", "/p11", "/p12">>

WideRefs == <<"r01", "r02", "r03", "r04", "r05", "r06", "r07", "r08", "r09",
              "r10", "r11", "r12">>

Collation == <<"", "/a", "/b">> \o WideUrls \o <<"g", "h">> \o WideRefs

Rank(k) == CHOOSE i \in 1..Len(Collation) : Collation[i] = k

\* ORDER BY count DESC leaves the order of equal counts to the engine.
TieOrders == {"asc", "desc"}

Before(a, b, cnt, tie) ==
    \/ cnt[a] > cnt[b]
    \/ /\ cnt[a] = cnt[b]
       /\ IF tie = "asc" THEN Rank(a) < Rank(b) ELSE Rank(a) > Rank(b)

\* The keys K in ORDER BY cnt DESC order.
RECURSIVE OrderByDesc(_, _, _)
OrderByDesc(K, cnt, tie) ==
    IF K = {} THEN <<>>
    ELSE LET first == CHOOSE k \in K :
                          \A j \in K \ {k} : Before(k, j, cnt, tie)
         IN  <<first>> \o OrderByDesc(K \ {first}, cnt, tie)

\* Variant: the LIMIT clause is left out.
LimitNone(seq, n) == seq

\* LIMIT n: a negative n is no limit.
Limit(seq, n) ==
    IF n < 0 \/ n >= Len(seq) THEN seq ELSE SubSeq(seq, 1, n)

\* Variant: WHERE DATE(timestamp) >= ?
DayRowsFrom(tab, date) ==
    {i \in 1..Len(tab) : /\ date.kind = "ymd"
                         /\ DateOf(tab[i].timestamp).day >= date.day}

\* WHERE DATE(timestamp) = ?
DayRows(tab, date) ==
    {i \in 1..Len(tab) : DateOf(tab[i].timestamp) = date}

\* COUNT(DISTINCT session_id) over the rows I: NULL is not counted.
CountDistinctSessions(tab, I) ==
    Cardinality({tab[i].session_id : i \in I} \ {None})

\* SELECT page_url, COUNT(*) ... GROUP BY page_url ORDER BY views DESC LIMIT n
\* over the rows I of page_views.
GroupByUrl(tab, I, n, tie) ==
    LET K == {tab[i].page_url : i \in I}
        cnt == [k \in K |-> Cardinality({i \in I : tab[i].page_url = k})]
        ord == Limit(OrderByDesc(K, cnt, tie), n)
    IN  [j \in 1..Len(ord) |->
            [page_url |-> ord[j],
             total_views |-> cnt[ord[j]],
             unique_visitors |->
                 CountDistinctSessions(tab, {i \in I : tab[i].page_url = ord[j]})]]

\* Variant: WHERE ... AND referrer IS NOT NULL
GroupByReferrerNotNull(tab, I, n, tie) ==
    LET J == {i \in I : tab[i].referrer # None}
        K == {tab[i].referrer : i \in J}
        cnt == [k \in K |-> Cardinality({i \in J : tab[i].referrer = k})]
        ord == Limit(OrderByDesc(K, cnt, tie), n)
    IN  [j \in 1..Len(ord) |-> [referrer |-> ord[j], visits |-> cnt[ord[j]]]]

\* SELECT referrer, COUNT(*) ... WHERE ... AND referrer != '' GROUP BY referrer
\* ORDER BY visits DESC LIMIT 10
GroupByReferrer(tab, I, n, tie) ==
    LET J == {i \in I : tab[i].referrer # None /\ tab[i].referrer # ""}
        K == {tab[i].referrer : i \in J}
        cnt == [k \in K |-> Cardinality({i \in J : tab[i].referrer = k})]
        ord == Limit(OrderByDesc(K, cnt, tie), n)
    IN  [j \in 1..Len(ord) |-> [referrer |-> ord[j], visits |-> cnt[ord[j]]]]

\* ------------------------------------------------------- get_daily_report
\* The report dict as initialised before the queries.
DefaultReport(date) ==
    [date |-> date, total_visits |-> 0, unique_visitors |-> 0,
     page_views |-> 0, top_pages |-> <<>>, referrers |-> <<>>,
     conversions |-> 0]

\* First query: COUNT(DISTINCT session_id), COUNT(*) of the day.
RunVisits(report, pv) ==
    [report EXCEPT
        !.unique_visitors = CountDistinctSessions(pv, DayRows(pv, report.date)),
        !.total_visits = Cardinality(DayRows(pv, report.date))]

\* Second query: COUNT(*) of the day again.
RunPageViews(report, pv) ==
    [report EXCEPT !.page_views = Cardinality(DayRows(pv, report.date))]

\* Variant: the views column holds COUNT(DISTINCT session_id).
RunTopPagesVisitors(report, pv, tie) ==
    LET g == GroupByUrl(pv, DayRows(pv, report.date), TopPagesLimit, tie)
    IN  [report EXCEPT !.top_pages =
            [j \in 1..Len(g) |-> [page |-> g[j].page_url,
                                  views |-> g[j].unique_visitors]]]

\* Third query: top pages.
RunTopPages(report, pv, tie) ==
    LET g == GroupByUrl(pv, DayRows(pv, report.date), TopPagesLimit, tie)
    IN  [report EXCEPT !.top_pages =
            [j \in 1..Len(g) |-> [page |-> g[j].page_url,
                                  views |-> g[j].total_views]]]

\* Fourth query: top referrers.
RunReferrers(report, pv, tie) ==
    [report EXCEPT !.referrers =
        GroupByReferrer(pv, DayRows(pv, report.date), ReferrersLimit, tie)]

\* Variant: COUNT(DISTINCT conversion_type) of the day's conversions.
RunConversionsTyped(report, cv) ==
    [report EXCEPT !.conversions =
        Cardinality({cv[i].conversion_type : i \in DayRows(cv, report.date)})]

\* Fifth query: COUNT(*) of the day's conversions.
RunConversions(report, cv) ==
    [report EXCEPT !.conversions = Cardinality(DayRows(cv, report.date))]

\* if not date: date = datetime.now().strftime('%Y-%m-%d')
EffectiveDate(date, c, off) ==
    IF date.kind = "none" THEN Today(c, off) ELSE date

\* A read method returns `value`; `step` names the query whose failure ended
\* it in the except branch ("none": every query ran).
ReturnedValue(op, value, step) ==
    [op |-> op, result |-> "returned", value |-> value, stored |-> FALSE,
     step |-> step]

\* finally: conn.close(); return
Return(p, op, value, step) ==
    /\ pc' = [pc EXCEPT ![p] = "idle"]
    /\ call' = [call EXCEPT ![p] = NoCall]
    /\ outcome' = [outcome EXCEPT ![p] = ReturnedValue(op, value, step)]
    /\ Close

DateArgs == {NoDate, BadDate} \cup {Ymd(d) : d \in 0..3}

\* Variant: the method stores its result as a row of daily_stats.
ReadOnlyButStats ==
    /\ UNCHANGED <<page_views, sessions, conversions>>
    /\ daily_stats' = Append(daily_stats, "stats")

\* The read methods execute SELECT statements only.
ReadOnly == UNCHANGED <<page_views, sessions, conversions, daily_stats>>

ReadFrame == <<lock, txn, clock, tz, ncalls, ok_views, raced, submissions,
               outbox, request>>

get_daily_report_connect(p) ==
    /\ pc[p] = "idle"
    /\ ncalls < MaxCalls
    /\ ncalls' = ncalls + 1
    /\ \/ \E date \in DateArgs :
            /\ pc' = [pc EXCEPT ![p] = "dr_visits"]
            /\ call' = [call EXCEPT ![p] =
                   [op |-> "get_daily_report", data |-> [date |-> date],
                    report |-> DefaultReport(EffectiveDate(date, clock, tz))]]
            /\ outcome' = [outcome EXCEPT ![p] = NoOutcome]
            /\ Open
       \/ ConnectFails(p, "get_daily_report")
    /\ UNCHANGED <<page_views, sessions, conversions, lock, txn, clock, tz,
                   ok_views, raced, daily_stats, submissions, outbox, request>>

\* One query of get_daily_report: it updates the report and the method goes on
\* at `next`, or it fails and the method returns the report as it stands.
DailyReportQuery(p, here, next, updated) ==
    /\ pc[p] = here
    /\ \/ /\ pc' = [pc EXCEPT ![p] = next]
          /\ call' = [call EXCEPT ![p].report = updated]
          /\ UNCHANGED <<outcome, handles>>
       \/ Return(p, "get_daily_report", call[p].report, here)
    /\ ReadOnly
    /\ UNCHANGED ReadFrame

get_daily_report_visits(p) ==
    DailyReportQuery(p, "dr_visits", "dr_page_views",
                     RunVisits(call[p].report, page_views))

get_daily_report_page_views(p) ==
    DailyReportQuery(p, "dr_page_views", "dr_top_pages",
                     RunPageViews(call[p].report, page_views))

get_daily_report_top_pages(p) ==
    \E tie \in TieOrders :
        DailyReportQuery(p, "dr_top_pages", "dr_referrers",
                         RunTopPages(call[p].report, page_views, tie))

get_daily_report_referrers(p) ==
    \E tie \in TieOrders :
        DailyReportQuery(p, "dr_referrers", "dr_conversions",
                         RunReferrers(call[p].report, page_views, tie))

\* The last query, then conn.close() and return report.
get_daily_report_conversions(p) ==
    /\ pc[p] = "dr_conversions"
    /\ \/ Return(p, "get_daily_report",
                 RunConversions(call[p].report, conversions), "none")
       \/ Return(p, "get_daily_report", call[p].report, "dr_conversions")
    /\ ReadOnly
    /\ UNCHANGED ReadFrame

get_daily_report_step(p) ==
    \/ get_daily_report_connect(p)
    \/ get_daily_report_visits(p)
    \/ get_daily_report_page_views(p)
    \/ get_daily_report_top_pages(p)
    \/ get_daily_report_referrers(p)
    \/ get_daily_report_conversions(p)

\* ------------------------------------------------------ get_popular_pages
DaysArgs == 0..2
LimitArgs == {-1, 0, 1, 2, 10}

\* WHERE DATE(timestamp) >= ?  (texts of dates compare as the dates do)
RowsSince(tab, cutoff) ==
    {i \in 1..Len(tab) : DateOf(tab[i].timestamp).day >= cutoff.day}

\* The query of get_popular_pages and the list built from its rows.
PopularPages(pv, c, off, days, limit, tie) ==
    GroupByUrl(pv, RowsSince(pv, CutoffDate(c, off, days)), limit, tie)

get_popular_pages_connect(p) ==
    /\ pc[p] = "idle"
    /\ ncalls < MaxCalls
    /\ ncalls' = ncalls + 1
    /\ \/ \E days \in DaysArgs, limit \in LimitArgs :
            /\ pc' = [pc EXCEPT ![p] = "pp_cutoff"]
            /\ call' = [call EXCEPT ![p] =
                   [op |-> "get_popular_pages",
                    data |-> [days |-> days, limit |-> limit]]]
            /\ outcome' = [outcome EXCEPT ![p] = NoOutcome]
            /\ Open
       \/ ConnectFails(p, "get_popular_pages")
    /\ UNCHANGED <<page_views, sessions, conversions, lock, txn, clock, tz,
                   ok_views, raced, daily_stats, submissions, outbox, request>>

\* cutoff_date: datetime.now() is read; `now` is the instant read.
get_popular_pages_cutoff(p) ==
    /\ pc[p] = "pp_cutoff"
    /\ pc' = [pc EXCEPT ![p] = "pp_query"]
    /\ call' = [call EXCEPT ![p] =
           [op |-> @.op, data |-> @.data, now |-> clock]]
    /\ UNCHANGED <<outcome, handles>>
    /\ ReadOnly
    /\ UNCHANGED ReadFrame

\* The query, on the store as it is then with the cutoff taken before, and
\* the list; on an exception the empty list.
get_popular_pages_query(p) ==
    /\ pc[p] = "pp_query"
    /\ \/ \E tie \in TieOrders :
            Return(p, "get_popular_pages",
                   PopularPages(page_views, call[p].now, tz,
                                call[p].data.days, call[p].data.limit, tie),
                   "none")
       \/ Return(p, "get_popular_pages", <<>>, "pp_query")
    /\ ReadOnly
    /\ UNCHANGED ReadFrame

\* ------------------------------------------------------------ export_data
ExportDays == 30
ExportLimit == 20

Formats == {"json", "csv", "CSV", "xml"}

\* format.lower()
Lower(f) == IF f = "CSV" THEN "csv" ELSE f

DigitChar == <<"0", "1", "2", "3", "4", "5", "6", "7", "8", "9">>

\* The decimal text of a non-negative integer, as an f-string writes it.
RECURSIVE Digits(_)
Digits(n) ==
    IF n < 10 THEN <<DigitChar[n + 1]>>
    ELSE Digits(n \div 10) \o <<DigitChar[(n % 10) + 1]>>

\* The text of an isoformat() value.
IsoText(t) == Digits(t.ticks \div TicksPerSec) \o <<".">> \o
              Digits(t.ticks % TicksPerSec)

\* Variant: the Total Visits row carries the unique visitors.
CsvLinesSwapped(data) ==
    << <<"Metric", ",", "Value">>,
       <<"Export Date", ",">> \o IsoText(data.export_date),
       <<"Total Visits", ",">> \o Digits(data.summary.unique_visitors),
       <<"Unique Visitors", ",">> \o Digits(data.summary.total_visits),
       <<"Page Views", ",">> \o Digits(data.summary.page_views),
       <<"Conversions", ",">> \o Digits(data.summary.conversions),
       <<>>,
       <<"Popular Pages", ",", "Views", ",", "Unique Visitors">> >>
    \o [j \in 1..Len(data.popular_pages) |->
          <<data.popular_pages[j].page_url, ",">>
          \o Digits(data.popular_pages[j].total_views) \o <<",">>
          \o Digits(data.popular_pages[j].unique_visitors)]

\* The csv lines: each line is the sequence of its pieces, "," the delimiter.
CsvLines(data) ==
    << <<"Metric", ",", "Value">>,
       <<"Export Date", ",">> \o IsoText(data.export_date),
       <<"Total Visits", ",">> \o Digits(data.summary.total_visits),
       <<"Unique Visitors", ",">> \o Digits(data.summary.unique_visitors),
       <<"Page Views", ",">> \o Digits(data.summary.page_views),
       <<"Conversions", ",">> \o Digits(data.summary.conversions),
       <<>>,
       <<"Popular Pages", ",", "Views", ",", "Unique Visitors">> >>
    \o [j \in 1..Len(data.popular_pages) |->
          <<data.popular_pages[j].page_url, ",">>
          \o Digits(data.popular_pages[j].total_views) \o <<",">>
          \o Digits(data.popular_pages[j].unique_visitors)]

\* json.dumps(data), '\n'.join(csv_lines) or str(data)
ExportText(format, data) ==
    IF Lower(format) = "json" THEN [format |-> "json", data |-> data,
                                    lines |-> <<>>]
    ELSE IF Lower(format) = "csv" THEN [format |-> "csv", data |-> data,
                                        lines |-> CsvLines(data)]
    ELSE [format |-> "str", data |-> data, lines |-> <<>>]

export_data_connect(p) ==
    /\ pc[p] = "idle"
    /\ ncalls < MaxCalls
    /\ ncalls' = ncalls + 1
    /\ \/ \E format \in Formats :
            /\ pc' = [pc EXCEPT ![p] = "ex_summary"]
            /\ call' = [call EXCEPT ![p] =
                   [op |-> "export_data", data |-> [format |-> format],
                    export_date |-> IsoFormat(LocalNow(clock, tz)),
                    summary |-> DefaultReport(NoDate)]]
            /\ outcome' = [outcome EXCEPT ![p] = NoOutcome]
            /\ Open
       \/ ConnectFails(p, "export_data")
    /\ UNCHANGED <<page_views, sessions, conversions, lock, txn, clock, tz,
                   ok_views, raced, daily_stats, submissions, outbox, request>>

\* export_data has no conn.close(): its connection stays open until the
\* garbage collector finds it, which may be at once or not at all.
Unclosed == handles' \in {handles, handles - 1}

\* An exception of a nested call leaves export_data too.
ExportRaises(p) ==
    /\ pc' = [pc EXCEPT ![p] = "idle"]
    /\ call' = [call EXCEPT ![p] = NoCall]
    /\ outcome' = [outcome EXCEPT ![p] = Raised("export_data")]
    /\ Unclosed

\* return json.dumps(data) / the csv text / str(data)
ExportReturn(p, value) ==
    /\ pc' = [pc EXCEPT ![p] = "idle"]
    /\ call' = [call EXCEPT ![p] = NoCall]
    /\ outcome' = [outcome EXCEPT ![p] =
           ReturnedValue("export_data", value, "none")]
    /\ Unclosed

\* The clock of a store that is reported on starts after the days the
\* store holds.
ReportClock == (2 * SecPerDay + 1) * TicksPerSec

\* The last tick of a behaviour: MaxClock ticks after the tick it started at.
ClockEnd ==
    IF clock < ReportClock THEN StartClock + MaxClock
    ELSE ReportClock + MaxClock

\* What a step of export_data that reads the clock leaves alone.
ExportFrame == <<lock, txn, tz, ncalls, ok_views, raced, submissions, outbox,
                 request>>

\* 'summary': self.get_daily_report(): the nested call opens a connection
\* of its own and takes today's date, which is read after export_date was:
\* time may have passed. When the connection cannot be opened the exception
\* leaves export_data.
export_data_summary(p) ==
    /\ pc[p] = "ex_summary"
    /\ \E d \in 0..1 :
          /\ clock + d <= ClockEnd
          /\ clock' = clock + d
          /\ \/ /\ pc' = [pc EXCEPT ![p] = "ex_visits"]
                /\ call' = [call EXCEPT ![p].summary =
                       DefaultReport(Today(clock + d, tz))]
                /\ UNCHANGED outcome
                /\ Open
             \/ ExportRaises(p)
    /\ ReadOnly
    /\ UNCHANGED ExportFrame

\* get_daily_report returns its report to export_data and closes its
\* connection.
SummaryReturn(p, report) ==
    /\ pc' = [pc EXCEPT ![p] = "ex_popular"]
    /\ call' = [call EXCEPT ![p].summary = report]
    /\ UNCHANGED outcome
    /\ Close

\* One query of the nested get_daily_report, on the store as it is then: it
\* updates the summary and the call goes on at `next`, or it fails and the
\* summary is returned as it stands.
SummaryQuery(p, here, next, updated) ==
    /\ pc[p] = here
    /\ \/ /\ pc' = [pc EXCEPT ![p] = next]
          /\ call' = [call EXCEPT ![p].summary = updated]
          /\ UNCHANGED <<outcome, handles>>
       \/ SummaryReturn(p, call[p].summary)
    /\ ReadOnly
    /\ UNCHANGED ReadFrame

export_data_summary_visits(p) ==
    SummaryQuery(p, "ex_visits", "ex_page_views",
                 RunVisits(call[p].summary, page_views))

export_data_summary_page_views(p) ==
    SummaryQuery(p, "ex_page_views", "ex_top_pages",
                 RunPageViews(call[p].summary, page_views))

export_data_summary_top_pages(p) ==
    \E tie \in TieOrders :
        SummaryQuery(p, "ex_top_pages", "ex_referrers",
                     RunTopPages(call[p].summary, page_views, tie))

export_data_summary_referrers(p) ==
    \E tie \in TieOrders :
        SummaryQuery(p, "ex_referrers", "ex_conversions",
                     RunReferrers(call[p].summary, page_views, tie))

\* The last query of the nested call, then its return.
export_data_summary_conversions(p) ==
    /\ pc[p] = "ex_conversions"
    /\ \/ SummaryReturn(p, RunConversions(call[p].summary, conversions))
       \/ SummaryReturn(p, call[p].summary)
    /\ ReadOnly
    /\ UNCHANGED ReadFrame

\* 'popular_pages': self.get_popular_pages(days=30, limit=20): the nested
\* call opens a connection of its own; when the connection cannot be opened
\* the exception leaves export_data.
export_data_popular(p) ==
    /\ pc[p] = "ex_popular"
    /\ \/ /\ pc' = [pc EXCEPT ![p] = "ex_cutoff"]
          /\ UNCHANGED <<call, outcome>>
          /\ Open
       \/ ExportRaises(p)
    /\ ReadOnly
    /\ UNCHANGED ReadFrame

\* cutoff_date of the nested get_popular_pages: datetime.now() is read after
\* the summary was made; `now` is the instant read.
export_data_popular_cutoff(p) ==
    /\ pc[p] = "ex_cutoff"
    /\ \E d \in 0..1 :
          /\ clock + d <= ClockEnd
          /\ clock' = clock + d
          /\ call' = [call EXCEPT ![p] =
                 [op |-> @.op, data |-> @.data,
                  export_date |-> @.export_date, summary |-> @.summary,
                  now |-> clock + d]]
    /\ pc' = [pc EXCEPT ![p] = "ex_query"]
    /\ UNCHANGED <<outcome, handles>>
    /\ ReadOnly
    /\ UNCHANGED ExportFrame

\* The query of the nested get_popular_pages, on the store as it is then,
\* or the empty list on an exception; the nested connection is closed and
\* the list returned to export_data.
export_data_popular_query(p) ==
    /\ pc[p] = "ex_query"
    /\ \E pages \in {<<>>} \cup
                     {PopularPages(page_views, call[p].now, tz, ExportDays,
                                   ExportLimit, t) : t \in TieOrders} :
          call' = [call EXCEPT ![p] =
              [op |-> @.op, data |-> @.data, export_date |-> @.export_date,
               summary |-> @.summary, popular_pages |-> pages]]
    /\ pc' = [pc EXCEPT ![p] = "ex_text"]
    /\ UNCHANGED outcome
    /\ Close
    /\ ReadOnly
    /\ UNCHANGED ReadFrame

\* The text in the asked format is built from the data and returned.
export_data_text(p) ==
    /\ pc[p] = "ex_text"
    /\ ExportReturn(p,
           ExportText(call[p].data.format,
                      [export_date |-> call[p].export_date,
                       summary |-> call[p].summary,
                       popular_pages |-> call[p].popular_pages]))
    /\ ReadOnly
    /\ UNCHANGED ReadFrame

\* ------------------------------------------------- stores to report on
\* The stores the report specifications start from are the tables left by
\* earlier committed tracking calls: an event is one such call, made at
\* second `sec` of the UTC clock.
StoreSecs == {SecPerDay - 1, SecPerDay, 2 * SecPerDay - 1, 2 * SecPerDay}

ViewEvents ==
    {[kind |-> "view", sid |-> e[1], url |-> e[2],
      ref |-> CASE e[1] = None -> "" [] e[1] = "s1" -> "g" [] OTHER -> "h",
      sec |-> e[3]] :
        e \in (SessionIds \cup {None}) \X {"/a", "/b"} \X StoreSecs}

ConversionEvents ==
    {[kind |-> "conversion", args |-> a, sec |-> t] :
        a \in {[session_id |-> "s1", conversion_type |-> "contact_form",
                conversion_value |-> 1, form_data |-> "filled"],
               [session_id |-> None, conversion_type |-> "form_submission",
                conversion_value |-> 0, form_data |-> None]},
        t \in StoreSecs}

\* The payload of the track_page_view call behind a view event.
ViewData(e) ==
    IF "data" \in DOMAIN e THEN e.data ELSE
    [k \in (IF e.sid = None THEN {} ELSE {"session_id"})
           \cup {"page_url", "referrer"} |->
        CASE k = "session_id" -> e.sid
          [] k = "page_url"   -> e.url
          [] k = "referrer"   -> e.ref]

\* The tables after the first n events of evs, each a committed call.
RECURSIVE Replay(_, _, _)
Replay(evs, n, off) ==
    IF n = 0
    THEN [page_views |-> <<>>, sessions |-> <<>>, conversions |-> <<>>]
    ELSE LET before == Replay(evs, n - 1, off)
             e == evs[n]
             c == e.sec * TicksPerSec
             now == IsoFormat(LocalNow(c, off))
         IN  IF e.kind = "view"
             THEN [before EXCEPT
                     !.page_views = Append(@, PageViewRow(ViewData(e),
                                                          CurrentTimestamp(c))),
                     !.sessions = UpsertSession(@, ViewData(e), now, now, now)]
             ELSE [before EXCEPT
                     !.conversions = Append(@, ConversionRow(e.args,
                                                             CurrentTimestamp(c)))]

\* Sequences of at most n events of E in the order of their seconds.
EventSeqs(E, n) ==
    UNION {{evs \in [1..m -> E] :
               \A i \in 1..(m - 1) : evs[i].sec <= evs[i + 1].sec} : m \in 0..n}

\* k pages viewed once each on the last stored second, page j once more.
WideEvents(k, j) ==
    [i \in 1..(IF j = 0 THEN k ELSE k + 1) |->
        LET u == IF i <= k THEN i ELSE j
        IN  [kind |-> "view",
             sid |-> IF u % 2 = 1 THEN "s1" ELSE "s2",
             url |-> WideUrls[u], ref |-> WideRefs[u],
             sec |-> 2 * SecPerDay]]

WideStores ==
    {WideEvents(k, j) : k \in {TopPagesLimit, TopPagesLimit + 1},
                        j \in {0, 1, TopPagesLimit, TopPagesLimit + 1}}

\* Views of session s1 on the given urls and referrers, one after the other
\* within the first second of day 1.
ViewsOf(urls, refs) ==
    [i \in 1..Len(urls) |->
        [kind |-> "view", sid |-> "s1", url |-> urls[i], ref |-> refs[i],
         sec |-> SecPerDay]]

Repeat(x, n) == [i \in 1..n |-> x]

\* One page three times and another once; pages with 5, 5 and 3 views in two
\* insertion orders; views with an empty, a missing and a given referrer.
ScenarioStores ==
    {ViewsOf(<<"/a", "/a", "/a", "/b">>, Repeat("g", 4)),
     ViewsOf(<<"/b", "/a", "/a", "/a">>, Repeat("g", 4)),
     ViewsOf(Repeat("/p01", 3) \o Repeat("/a", 5) \o Repeat("/b", 5),
             Repeat("h", 3) \o Repeat("g", 5) \o Repeat("", 5)),
     ViewsOf(Repeat("/b", 5) \o Repeat("/p01", 3) \o Repeat("/a", 5),
             Repeat("g", 5) \o Repeat("", 3) \o Repeat("h", 5)),
     ViewsOf(<<"/a", "/a", "/b", "/b">>, <<"", None, "g", "g">>)}

\* The state after the history evs, no call running, one call to come.
StoreAtRest(histories, now) ==
    \E off \in TzOffsets, evs \in histories :
        LET st == Replay(evs, Len(evs), off)
        IN  /\ page_views = st.page_views
            /\ sessions = st.sessions
            /\ conversions = st.conversions
            /\ tz = off
            /\ ok_views = [x \in SessionIds \cup {None} |->
                   Cardinality({i \in 1..Len(st.page_views) :
                                   st.page_views[i].session_id = x})]
            /\ lock = NoProc
            /\ txn = [p \in Procs |-> NoTxn]
            /\ pc = [p \in Procs |-> "idle"]
            /\ call = [p \in Procs |-> NoCall]
            /\ outcome = [p \in Procs |-> NoOutcome]
            /\ clock = now
            /\ ncalls = MaxCalls - 1
            /\ raced = {}
            /\ NothingElse

InitStore ==
    StoreAtRest(EventSeqs(ViewEvents, MaxRows)
                    \cup EventSeqs(ConversionEvents, MaxRows)
                    \cup WideStores \cup ScenarioStores,
                ReportClock)

\* get_daily_report on a store at rest.
NextReport == \E p \in Procs : get_daily_report_step(p)

SpecReport == InitStore /\ [][NextReport]_vars

\* The stores export_data and get_popular_pages start from: a history of
\* one event less than the stores of the daily report, the wide ones and
\* the scenarios.
InitExport ==
    StoreAtRest(EventSeqs(ViewEvents, MaxRows - 1)
                    \cup EventSeqs(ConversionEvents, MaxRows - 1)
                    \cup WideStores \cup ScenarioStores,
                ReportClock)

\* get_popular_pages and export_data on a store at rest.
NextExport ==
    \E p \in Procs :
        \/ get_popular_pages_connect(p)
        \/ get_popular_pages_cutoff(p)
        \/ get_popular_pages_query(p)
        \/ export_data_connect(p)
        \/ export_data_summary(p)
        \/ export_data_summary_visits(p)
        \/ export_data_summary_page_views(p)
        \/ export_data_summary_top_pages(p)
        \/ export_data_summary_referrers(p)
        \/ export_data_summary_conversions(p)
        \/ export_data_popular(p)
        \/ export_data_popular_cutoff(p)
        \/ export_data_popular_query(p)
        \/ export_data_text(p)

SpecExport == InitExport /\ [][NextExport]_vars

\* ------------------------------------------------ payloads with any fields
\* The columns of a page-view row a payload can fill, and those of a session.
EventFields == {"session_id", "page_url", "page_title", "referrer",
                "user_agent", "ip_address", "country", "city", "time_on_page",
                "scroll_depth"}

NumericFields == {"time_on_page", "scroll_depth"}

SessionFields == {"user_id", "device_type", "browser", "os",
                  "screen_resolution"}

\* A value a client sends for field k.
FieldSample(k) ==
    CASE k = "session_id"   -> "s1"
      [] k = "page_url"     -> "/a"
      [] k = "page_title"   -> "Home"
      [] k = "referrer"     -> "g"
      [] k = "user_agent"   -> "Mozilla"
      [] k = "ip_address"   -> "10.0.0.1"
      [] k = "country"      -> "Malawi"
      [] k = "city"         -> "Lilongwe"
      [] k = "time_on_page" -> 30
      [] k = "scroll_depth" -> 80

\* Payloads with any subset of the event fields.
EventPayloads == {[k \in K |-> FieldSample(k)] : K \in SUBSET EventFields}

\* Payloads of session s1 with any subset of the session fields, each set to v.
SessionPayloads(v) ==
    {[k \in K \cup {"session_id"} |-> IF k = "session_id" THEN "s1" ELSE v] :
        K \in SUBSET SessionFields}

AnyPayloads == EventPayloads \cup SessionPayloads("later")

\* The empty store, and the store after a first view of s1 that carried every
\* session field or none.
FirstViews ==
    {<<>>} \cup
    {<<[kind |-> "view", data |-> d, sec |-> 1]>> :
        d \in {[k \in SessionFields \cup {"session_id"} |->
                   IF k = "session_id" THEN "s1" ELSE "first"],
               [k \in {"session_id"} |-> "s1"]}}

InitPayload == StoreAtRest(FirstViews, StartClock)

track_page_view_connect_any(p) == TrackPageViewConnect(p, AnyPayloads)

\* One track_page_view with any payload.
NextPayload ==
    \E p \in Procs :
        \/ track_page_view_connect_any(p)
        \/ track_page_view_insert(p)
        \/ track_page_view_upsert(p)
        \/ track_page_view_commit(p)

SpecPayload == InitPayload /\ [][NextPayload]_vars

\* get_daily_report while tracking calls run on other connections.
NextRace == Next \/ \E p \in Procs : get_daily_report_step(p)

SpecRace == Init /\ [][NextRace]_vars

\* ------------------------------------------------------------- endpoints
\* /api/analytics/track and /api/analytics/conversion: success unless the
\* tracker call raised.
api_response(out) ==
    IF out.result = "raised"
    THEN [success |-> FALSE, status |-> 400]
    ELSE [success |-> TRUE, status |-> 200]

\* Variant: the endpoint updates time_on_page of the latest page view.
api_analytics_update_stored(p) ==
    /\ pc[p] = "idle"
    /\ ncalls < MaxCalls
    /\ ncalls' = ncalls + 1
    /\ page_views' = [i \in 1..Len(page_views) |->
           IF i = Len(page_views)
           THEN [page_views[i] EXCEPT !.time_on_page = 30]
           ELSE page_views[i]]
    /\ outcome' = [outcome EXCEPT ![p] =
           [op |-> "api_analytics_update", result |-> "returned",
            value |-> [success |-> TRUE], stored |-> TRUE, step |-> "none"]]
    /\ UNCHANGED <<sessions, conversions, lock, txn, pc, call, clock, tz,
                   ok_views, raced, daily_stats, handles, submissions, outbox,
                   request>>

\* /api/analytics/update: reads the JSON body and answers success; the update
\* of the stored record is left as a comment.
api_analytics_update(p) ==
    /\ pc[p] = "idle"
    /\ ncalls < MaxCalls
    /\ ncalls' = ncalls + 1
    /\ \E data \in Payloads :
          outcome' = [outcome EXCEPT ![p] =
              [op |-> "api_analytics_update", result |-> "returned",
               value |-> [success |-> TRUE], stored |-> FALSE,
               step |-> "none"]]
    /\ UNCHANGED <<page_views, sessions, conversions, lock, txn, pc, call,
                   clock, tz, ok_views, raced, daily_stats, handles,
                   submissions, outbox, request>>

\* Every operation on the analytics store, from the empty store on.
NextAll ==
    \/ Next
    \/ NextReport
    \/ NextExport
    \/ \E p \in Procs : api_analytics_update(p)

\* The empty store with two calls to come.
InitAll ==
    /\ page_views = <<>>
    /\ sessions = <<>>
    /\ conversions = <<>>
    /\ lock = NoProc
    /\ txn = [p \in Procs |-> NoTxn]
    /\ pc = [p \in Procs |-> "idle"]
    /\ call = [p \in Procs |-> NoCall]
    /\ outcome = [p \in Procs |-> NoOutcome]
    /\ clock = StartClock
    /\ tz \in TzOffsets
    /\ ncalls = MaxCalls - 2
    /\ ok_views = [s \in SessionIds \cup {None} |-> 0]
    /\ raced = {}
    /\ NothingElse

SpecAll == InitAll /\ [][NextAll]_vars

\* ------------------------------------------------------------ form texts
\* A Python string is the sequence of its characters.
Texts(A, n) == UNION { [1..m -> A] : m \in 0..n }

NameChars == {"a"}
EmailChars == {"a", "@"}
PhoneChars == {"1", "+", "-", " ", "a"}

FormFields == {"name", "email", "phone", "message"}

FieldTexts(k) ==
    CASE k = "email" -> Texts(EmailChars, MaxText)
      [] k = "phone" -> Texts(PhoneChars, MaxText)
      [] OTHER -> Texts(NameChars, MaxText - 1)

\* The dictionaries process_form may be given: any of the fields present.
Forms ==
    UNION { { [k \in K |-> r[k]] :
                r \in [name : FieldTexts("name"), email : FieldTexts("email"),
                       phone : FieldTexts("phone"),
                       message : FieldTexts("message")] } :
            K \in SUBSET FormFields }

\* str.replace(ch, '')
Replace(txt, ch) == SelectSeq(txt, LAMBDA c : c # ch)

\* str.isdigit(): at least one character and every character a digit.
IsDigit(txt) ==
    /\ Len(txt) > 0
    /\ \A i \in 1..Len(txt) : \E d \in 1..Len(DigitChar) : txt[i] = DigitChar[d]

\* str.strip()
Strip(txt) ==
    LET I == {i \in 1..Len(txt) : txt[i] # " "}
    IN  IF I = {} THEN <<>>
        ELSE SubSeq(txt, CHOOSE i \in I : \A j \in I : i <= j,
                         CHOOSE i \in I : \A j \in I : i >= j)

\* ---------------------------------------------------- validate_form_data
\* not form_data.get(field): the key is absent or its text is empty.
Falsy(form, field) == Get(form, field, <<>>) = <<>>

RequiredFields == <<"name", "email", "message">>

\* The error appended for a required field that is absent or empty.
RequiredError(form, field) ==
    IF Falsy(form, field) THEN << field \o " is required" >> ELSE <<>>

\* email and '@' not in email
EmailError(form) ==
    LET email == Get(form, "email", <<>>)
    IN  IF email # <<>> /\ \A i \in 1..Len(email) : email[i] # "@"
        THEN << "Invalid email address" >> ELSE <<>>

\* phone and not phone.replace(' ', '').replace('-', '').replace('+', '')
\*                     .isdigit()
PhoneError(form) ==
    LET phone == Get(form, "phone", <<>>)
    IN  IF phone # <<>>
           /\ ~IsDigit(Replace(Replace(Replace(phone, " "), "-"), "+"))
        THEN << "Invalid phone number format" >> ELSE <<>>

\* The errors in the order the method appends them.
ValidationErrors(form) ==
    RequiredError(form, RequiredFields[1])
    \o RequiredError(form, RequiredFields[2])
    \o RequiredError(form, RequiredFields[3])
    \o EmailError(form) \o PhoneError(form)

\* return len(errors) == 0, errors
validate_form_data(form) ==
    [valid |-> Len(ValidationErrors(form)) = 0,
     errors |-> ValidationErrors(form)]

\* --------------------------------------------------------- save_submission
\* submission_{timestamp}.json with strftime('%Y%m%d_%H%M%S') of the local
\* time: one name for each second of the clock.
Filename(c, off) == << "submission", LocalNow(c, off) \div TicksPerSec >>

\* The form with the metadata added: the isoformat of the local time, which
\* has no fraction when the clock is read on an exact second, and the
\* address and the agent of the form, 'Unknown' when it has none.
SubmissionData(form, c, off, exact) ==
    LET Unknown == <<"U", "n", "k", "n", "o", "w", "n">>
    IN  [form |-> form, timestamp |-> LocalNow(c, off), exact |-> exact,
         ip_address |-> Get(form, "ip", Unknown),
         user_agent |-> Get(form, "user_agent", Unknown)]

\* A file without content.
EmptyFile == [text |-> ""]

\* The directory with the file `name` holding `content`, created if the name
\* is free.
WriteFile(dir, name, content) ==
    [f \in DOMAIN dir \cup {name} |-> IF f = name THEN content ELSE dir[f]]

\* The characters of a field name.
KeyLen(k) ==
    CASE k = "name" -> 4 [] k = "email" -> 5 [] k = "phone" -> 5
      [] k = "message" -> 7 [] k = "company" -> 7 [] k = "service" -> 7
      [] k = "ip" -> 2

\* The length of the lines json.dumps(submission_data, indent=2) writes for
\* the fields K of the form: two spaces, the quoted name, a colon and a
\* space, the quoted text, and a comma and a line end.
RECURSIVE FieldsSize(_, _)
FieldsSize(form, K) ==
    IF K = {} THEN 0
    ELSE LET k == CHOOSE x \in K : TRUE
         IN  KeyLen(k) + Len(form[k]) + 10 + FieldsSize(form, K \ {k})

\* The length of a file: none, a submission, or a submission followed by
\* what is left of a longer content. The text of a submission is the braces
\* and a line for each key: the fields of the form, the timestamp of 26
\* characters or of 19 on an exact second, ip_address and user_agent, which
\* take the place of fields of the form with these names.
RECURSIVE FileSize(_)
FileSize(file) ==
    IF "text" \in DOMAIN file THEN 0
    ELSE IF "tail" \in DOMAIN file THEN FileSize(file.tail)
    ELSE 2 + FieldsSize(file.form,
                        DOMAIN file.form
                            \ {"timestamp", "ip_address", "user_agent"})
           + 19 + (IF file.exact THEN 19 ELSE 26)
           + 20 + Len(file.ip_address)
           + 20 + Len(file.user_agent)

\* The buffered text is written at offset 0 of the file as it is then: a
\* longer content that another writer has put there since this writer's
\* open() keeps its end.
Overwrite(file, data) ==
    IF FileSize(file) > FileSize(data) THEN [head |-> data, tail |-> file]
    ELSE data

\* ----------------------------------------------------------- process_form
\* The response to a form that failed validation.
Rejected(errors) ==
    [success |-> FALSE, errors |-> errors,
     message |-> "Form validation failed"]

\* The response to a form that passed validation.
Accepted(saved_file, email_sent, auto_reply_sent) ==
    [success |-> TRUE, submission_id |-> saved_file,
     email_sent |-> email_sent, auto_reply_sent |-> auto_reply_sent]

\* What a step of process_form leaves alone: the analytics store and its
\* connections.
FormFrame == <<page_views, sessions, conversions, lock, txn, pc, call, tz,
               ok_views, raced, daily_stats, handles>>

\* process_form is called with a form of F.
ProcessFormCall(p, F) ==
    /\ pc[p] = "idle"
    /\ request[p].state \in {"none", "processed"}
    /\ ncalls < MaxCalls
    /\ ncalls' = ncalls + 1
    /\ \E form \in F :
          request' = [request EXCEPT ![p] =
              [@ EXCEPT !.state = "validate", !.via = "direct",
                        !.form = form, !.filename = NoFile,
                        !.data = <<>>, !.saved_file = NoFile,
                        !.email_sent = FALSE, !.result = <<>>]]
    /\ UNCHANGED <<outcome, clock, submissions, outbox>>
    /\ UNCHANGED FormFrame

process_form_call(p) == ProcessFormCall(p, Forms)

\* Variant: the submission is saved before the form is validated.
process_form_validate_saved(p) ==
    /\ request[p].state = "validate"
    /\ LET v == validate_form_data(request[p].form)
       IN  request' = [request EXCEPT ![p] =
               IF v.valid THEN [@ EXCEPT !.state = "save"]
               ELSE [@ EXCEPT !.state = "processed",
                              !.result = Rejected(v.errors)]]
    /\ submissions' = WriteFile(submissions, Filename(clock, tz),
                                SubmissionData(request[p].form, clock, tz,
                                               FALSE))
    /\ UNCHANGED <<outcome, clock, ncalls, outbox>>
    /\ UNCHANGED FormFrame

\* validate_form_data and the early return of the rejected form.
process_form_validate(p) ==
    /\ request[p].state = "validate"
    /\ LET v == validate_form_data(request[p].form)
       IN  request' = [request EXCEPT ![p] =
               IF v.valid THEN [@ EXCEPT !.state = "save"]
               ELSE [@ EXCEPT !.state = "processed",
                              !.result = Rejected(v.errors)]]
    /\ UNCHANGED <<outcome, clock, ncalls, submissions, outbox>>
    /\ UNCHANGED FormFrame

\* save_submission with save_to_file on: datetime.now() is read for the
\* name of the file.
process_form_save(p) ==
    /\ request[p].state = "save"
    /\ \E d \in 0..1 :
          /\ clock + d <= StartClock + MaxClock
          /\ clock' = clock + d
          /\ request' = [request EXCEPT ![p] =
                 [@ EXCEPT !.state = "save_data",
                           !.filename = Filename(clock + d, tz)]]
    /\ UNCHANGED <<outcome, ncalls, submissions, outbox>>
    /\ UNCHANGED FormFrame

\* submission_data: datetime.now() is read once more, for the timestamp; a
\* read on the first tick of a second may fall on the exact second.
process_form_save_data(p) ==
    /\ request[p].state = "save_data"
    /\ \E d \in 0..1, exact \in BOOLEAN :
          /\ clock + d <= StartClock + MaxClock
          /\ exact => LocalNow(clock + d, tz) % TicksPerSec = 0
          /\ clock' = clock + d
          /\ request' = [request EXCEPT ![p] =
                 [@ EXCEPT !.state = "save_open",
                           !.data = SubmissionData(request[p].form,
                                                   clock + d, tz, exact)]]
    /\ UNCHANGED <<outcome, ncalls, submissions, outbox>>
    /\ UNCHANGED FormFrame

\* save_submission returns to process_form.
SaveReturn(p, saved_file) ==
    request' = [request EXCEPT ![p] =
        [@ EXCEPT !.state = "email", !.filename = NoFile, !.data = <<>>,
                  !.saved_file = saved_file,
                  !.saves = IF saved_file = NoFile THEN @ ELSE @ + 1,
                  !.save_errors = IF saved_file = NoFile THEN @ + 1 ELSE @]]

\* open(filename, 'w'): the file is created, or emptied if the name is taken;
\* when it cannot be opened the except branch returns None.
process_form_save_open(p) ==
    /\ request[p].state = "save_open"
    /\ \/ /\ submissions' = WriteFile(submissions, request[p].filename,
                                      EmptyFile)
          /\ request' = [request EXCEPT ![p].state = "save_write"]
       \/ /\ SaveReturn(p, NoFile)
          /\ UNCHANGED submissions
    /\ UNCHANGED <<outcome, clock, ncalls, outbox>>
    /\ UNCHANGED FormFrame

\* json.dump and the end of the with block: the text is written when the
\* file is closed and the name returned; when the write fails the file stays
\* as it is and the except branch returns None.
process_form_save_write(p) ==
    /\ request[p].state = "save_write"
    /\ \/ /\ submissions' =
                WriteFile(submissions, request[p].filename,
                          Overwrite(submissions[request[p].filename],
                                    request[p].data))
          /\ SaveReturn(p, request[p].filename)
       \/ /\ SaveReturn(p, NoFile)
          /\ UNCHANGED submissions
    /\ UNCHANGED <<outcome, clock, ncalls, outbox>>
    /\ UNCHANGED FormFrame

\* The message has been handed to the mail server.
Sent(kind, form) == Append(outbox, [kind |-> kind, form |-> form])

\* send_email with send_email on: the notification goes out and True is
\* returned, or the except branch returns False, the message gone out (the
\* connection dropped before the server's answer) or not.
process_form_send_email(p) ==
    /\ request[p].state = "email"
    /\ \E sent \in BOOLEAN, returned \in BOOLEAN :
          /\ returned => sent
          /\ outbox' = IF sent THEN Sent("notification", request[p].form)
                       ELSE outbox
          /\ request' = [request EXCEPT ![p] =
                 [@ EXCEPT !.state = "reply", !.email_sent = returned]]
    /\ UNCHANGED <<outcome, clock, ncalls, submissions>>
    /\ UNCHANGED FormFrame

\* send_auto_reply, then the response is built and returned: False without
\* an email address or from the except branch, the reply gone out or not.
process_form_send_auto_reply(p) ==
    /\ request[p].state = "reply"
    /\ \E sent \in BOOLEAN, returned \in BOOLEAN :
          /\ returned => sent
          /\ sent => ~Falsy(request[p].form, "email")
          /\ outbox' = IF sent THEN Sent("auto_reply", request[p].form)
                       ELSE outbox
          /\ request' = [request EXCEPT ![p] =
                 [@ EXCEPT !.state = "processed",
                           !.result = Accepted(request[p].saved_file,
                                               request[p].email_sent,
                                               returned)]]
    /\ UNCHANGED <<outcome, clock, ncalls, submissions>>
    /\ UNCHANGED FormFrame

\* One call of process_form, on any form, with nothing saved or sent before.
NextForm ==
    \E p \in Procs :
        \/ process_form_call(p)
        \/ process_form_validate(p)
        \/ process_form_save(p)
        \/ process_form_save_data(p)
        \/ process_form_save_open(p)
        \/ process_form_save_write(p)
        \/ process_form_send_email(p)
        \/ process_form_send_auto_reply(p)

InitForm ==
    /\ page_views = <<>>
    /\ sessions = <<>>
    /\ conversions = <<>>
    /\ lock = NoProc
    /\ txn = [p \in Procs |-> NoTxn]
    /\ pc = [p \in Procs |-> "idle"]
    /\ call = [p \in Procs |-> NoCall]
    /\ outcome = [p \in Procs |-> NoOutcome]
    /\ clock = StartClock
    /\ tz \in TzOffsets
    /\ ncalls = MaxCalls - 1
    /\ ok_views = [s \in SessionIds \cup {None} |-> 0]
    /\ raced = {}
    /\ NothingElse

SpecForm == InitForm /\ [][NextForm]_vars

\* Two forms that pass validation, one longer than the other.
SavedForms ==
    { [name |-> <<"a">>, email |-> <<"@", "a">>, message |-> <<"a">>,
       phone |-> <<"1", "1">>],
      [name |-> <<"a">>, email |-> <<"a", "@">>, message |-> <<"a">>] }

process_form_call_saved(p) == ProcessFormCall(p, SavedForms)

\* Two calls of process_form, by either handler, each with a form to save.
NextSave ==
    \E p \in Procs :
        \/ process_form_call_saved(p)
        \/ process_form_validate(p)
        \/ process_form_save(p)
        \/ process_form_save_data(p)
        \/ process_form_save_open(p)
        \/ process_form_save_write(p)
        \/ process_form_send_email(p)
        \/ process_form_send_auto_reply(p)

\* ------------------------------------------------------------ api_contact
\* request.cookies.get('session_id', 'unknown')
CookieSession(cookie) == IF cookie = None THEN "unknown" ELSE cookie

\* The posted forms: a complete one with a phone number, and one whose name
\* is a blank and that has no message field.
PostedForms ==
    { [name |-> <<"a">>, email |-> <<"a", "@">>, message |-> <<"a">>,
       phone |-> <<" ", "1">>],
      [name |-> <<" ">>, email |-> <<"a", "@">>] }

\* form_data: each field of the posted form, '' if absent, stripped; the
\* service as posted, 'General Inquiry' if absent; request.remote_addr and
\* the User-Agent header, '' if absent.
FormData(posted) ==
    [k \in FormFields \cup {"company", "service", "ip", "user_agent"} |->
        CASE k = "service" ->
                 Get(posted, k, <<"G", "e", "n", "e", "r", "a", "l", " ",
                                  "I", "n", "q", "u", "i", "r", "y">>)
          [] k = "ip" -> <<"1", "2", "7", ".", "0", ".", "0", ".", "1">>
          [] k = "user_agent" -> Get(posted, "User-Agent", <<>>)
          [] OTHER -> Strip(Get(posted, k, <<>>))]

\* The arguments api_contact passes to track_conversion.
ContactConversion(req) ==
    [session_id |-> req.session, conversion_type |-> "contact_form",
     conversion_value |-> 1, form_data |-> "filled"]

\* The requests that have been received and have not yet called the tracker.
Pending ==
    {q \in Procs : /\ request[q].via = "api"
                   /\ request[q].state \in {"validate", "save", "save_data",
                                             "save_open",
                                             "save_write", "email", "reply",
                                             "processed"}
                   /\ outcome[q].op = "none"}

\* A POST to /api/contact arrives: form_data is built and process_form
\* called.
api_contact_receive(p) ==
    /\ pc[p] = "idle"
    /\ request[p].state \in {"none", "answered"}
    /\ ncalls + Cardinality(Pending) < MaxCalls
    /\ \E posted \in PostedForms, cookie \in {"s1", None} :
          request' = [request EXCEPT ![p] =
              [@ EXCEPT !.state = "validate", !.via = "api",
                        !.form = FormData(posted),
                        !.session = CookieSession(cookie),
                        !.saved_file = NoFile, !.email_sent = FALSE,
                        !.result = <<>>, !.status = 0]]
    /\ outcome' = [outcome EXCEPT ![p] = NoOutcome]
    /\ UNCHANGED <<clock, ncalls, submissions, outbox>>
    /\ UNCHANGED FormFrame

\* process_form has returned: analytics.track_conversion is called.
api_contact_track(p) ==
    /\ request[p].via = "api"
    /\ request[p].state = "processed"
    /\ outcome[p].op = "none"
    /\ TrackConversionConnect(p, {ContactConversion(request[p])})

\* track_conversion is over: jsonify(result) is returned, or the except
\* branch answers 500 when the call raised.
api_contact_respond(p) ==
    /\ pc[p] = "idle"
    /\ request[p].via = "api"
    /\ request[p].state = "processed"
    /\ outcome[p].op = "track_conversion"
    /\ request' = [request EXCEPT ![p] =
           IF outcome[p].result = "raised"
           THEN [@ EXCEPT !.state = "answered", !.status = 500,
                          !.result = [success |-> FALSE,
                                      message |-> "Internal server error"]]
           ELSE [@ EXCEPT !.state = "answered", !.status = 200,
                          !.answered = @ + 1]]
    /\ UNCHANGED <<outcome, clock, ncalls, submissions, outbox>>
    /\ UNCHANGED FormFrame

\* One request to /api/contact, served by either handler.
NextContact ==
    \E p \in Procs :
        \/ api_contact_receive(p)
        \/ process_form_validate(p)
        \/ process_form_save(p)
        \/ process_form_save_data(p)
        \/ process_form_save_open(p)
        \/ process_form_save_write(p)
        \/ process_form_send_email(p)
        \/ process_form_send_auto_reply(p)
        \/ api_contact_track(p)
        \/ track_conversion_insert(p)
        \/ track_conversion_commit(p)
        \/ api_contact_respond(p)

SpecContact == InitForm /\ [][NextContact]_vars

SpecSave == InitAll /\ [][NextSave]_vars

\* ----------------------------------------------------------------- claims
RowsOf(tab, s) == {i \in 1..Len(tab) : tab[i].session_id = s}

RECURSIVE SumViews(_, _)
SumViews(sess, I) ==
    IF I = {} THEN 0
    ELSE LET i == CHOOSE j \in I : TRUE
         IN  sess[i].total_views + SumViews(sess, I \ {i})

AllIdle == \A p \in Procs : pc[p] = "idle"

\* The step is p's call of op ending with its event committed.
Stored(p, op) ==
    /\ call[p].op = op
    /\ pc'[p] = "idle"
    /\ outcome'[p].stored

\* The step is p's call of op ending in its except branch.
Failed(p, op) ==
    /\ call[p].op = op
    /\ pc'[p] = "idle"
    /\ ~outcome'[p].stored

\* C1: after N committed track_page_view calls carrying one session_id, the
\* sessions table holds a row for that session_id with total_views = N.
C1_TotalViewsCountsCalls ==
    \A s \in SessionIds :
        ok_views[s] > 0 =>
            \E i \in RowsOf(sessions, s) : sessions[i].total_views = ok_views[s]

C1_Witness ==
    \E s \in SessionIds :
        /\ ok_views[s] >= 2
        /\ \E i \in RowsOf(sessions, s) : sessions[i].total_views = ok_views[s]

\* C2: the session's last_visit is the instant stored as timestamp on the last
\* page-view row of that session_id.
C2_LastVisitIsLastTimestamp ==
    \A s \in SessionIds :
        RowsOf(page_views, s) # {} =>
            LET last == CHOOSE j \in RowsOf(page_views, s) :
                            \A k \in RowsOf(page_views, s) : k <= j
            IN  \A i \in RowsOf(sessions, s) :
                    sessions[i].last_visit.ticks = page_views[last].timestamp.ticks

\* C3: whatever the interleaving of track_page_view calls for one session_id,
\* once all calls have returned its total_views equals the number of page-view
\* rows committed for it.
C3_NoLostIncrement ==
    AllIdle =>
        \A s \in SessionIds :
            ok_views[s] > 0 =>
                /\ Cardinality(RowsOf(page_views, s)) = ok_views[s]
                /\ \A i \in RowsOf(sessions, s) :
                       sessions[i].total_views = Cardinality(RowsOf(page_views, s))
                /\ RowsOf(sessions, s) # {}

C3_Witness ==
    /\ AllIdle
    /\ \E s \in SessionIds \cap raced :
           /\ ok_views[s] >= 2
           /\ \E i \in RowsOf(sessions, s) : sessions[i].total_views = ok_views[s]

\* C4: every session row's last_visit is not earlier than the timestamp of any
\* page-view row stored with its session_id.
C4_LastVisitNotBeforeViews ==
    \A s \in SessionIds :
        \A i \in RowsOf(sessions, s), j \in RowsOf(page_views, s) :
            sessions[i].last_visit.ticks >= page_views[j].timestamp.ticks

\* C5: the sessions table holds at most one row per session_id an event can
\* carry, a missing session_id (None) included.
C5_OneRowPerSessionId ==
    \A s \in SessionIds \cup {None} :
        Cardinality(RowsOf(sessions, s)) <= 1

\* C6: every stored event, page view or conversion, creates the session row of
\* its session_id when absent and otherwise adds one to its total_views and
\* moves its last_visit forward.
C6_EveryEventUpsertsSession ==
    [][\A p \in Procs, op \in {"track_page_view", "track_conversion"} :
          Stored(p, op) =>
              LET s == Get(call[p].data, "session_id", None)
              IN  s \in SessionIds =>
                    /\ Cardinality(RowsOf(sessions', s)) = 1
                    /\ \A i \in RowsOf(sessions', s) :
                         IF RowsOf(sessions, s) = {}
                         THEN sessions'[i].total_views = 1
                         ELSE /\ sessions'[i].total_views =
                                     sessions[i].total_views + 1
                              /\ sessions'[i].last_visit.ticks >=
                                     sessions[i].last_visit.ticks
      ]_vars

\* C7: a stored track_page_view appends exactly one row to page_views and none
\* to conversions; a stored track_conversion appends exactly one row to
\* conversions and none to page_views.
C7_OneRowInOwnTable ==
    [][\A p \in Procs :
          /\ Stored(p, "track_page_view") =>
                /\ Len(page_views') = Len(page_views) + 1
                /\ SubSeq(page_views', 1, Len(page_views)) = page_views
                /\ conversions' = conversions
          /\ Stored(p, "track_conversion") =>
                /\ Len(conversions') = Len(conversions) + 1
                /\ SubSeq(conversions', 1, Len(conversions)) = conversions
                /\ page_views' = page_views
      ]_vars

C7_Witness ==
    /\ \E p \in Procs : outcome[p].op = "track_page_view" /\ outcome[p].stored
    /\ \E p \in Procs : outcome[p].op = "track_conversion" /\ outcome[p].stored
    /\ Len(page_views) = 1
    /\ Len(conversions) = 1

\* C8: a track_page_view call that fails at its insert, its upsert or its
\* commit leaves page_views, sessions and conversions as they were, and in no
\* state is a page-view row stored without its session change or a session
\* change without its page-view row.
C8_FailedCallLeavesNoTrace ==
    /\ [](\A s \in SessionIds \cup {None} :
             Cardinality(RowsOf(page_views, s)) =
                 SumViews(sessions, RowsOf(sessions, s)))
    /\ [][\A p \in Procs :
             Failed(p, "track_page_view") =>
                 UNCHANGED <<page_views, sessions, conversions>>
         ]_vars

C8_Witness ==
    \E p \in Procs, q \in Procs :
        /\ outcome[p].op = "track_page_view"
        /\ outcome[p].result = "returned"
        /\ ~outcome[p].stored
        /\ outcome[p].step \in {"upsert", "commit"}
        /\ outcome[q].op = "track_page_view"
        /\ outcome[q].stored
        /\ Len(page_views) = 1
        /\ Len(sessions) = 1

\* C9: no exception leaves a tracker method when the store is unavailable,
\* the opening of the connection included.
C9_NoExceptionEscapes ==
    \A p \in Procs : outcome[p].result # "raised"

\* C10: a call that did not store its event returns a value other than the
\* value of a call that stored it, and its endpoint does not answer success.
C10_SoftFailureSignal ==
    \A p \in Procs :
        (outcome[p].result = "returned" /\ ~outcome[p].stored) =>
            /\ outcome[p].value # Returned(outcome[p].op, TRUE, "none").value
            /\ ~api_response(outcome[p]).success

\* ------------------------------------------------------ claims on the reports
\* The rows of tab whose stored instant lies within the calendar day d.
OnDay(tab, d) ==
    {i \in 1..Len(tab) :
        /\ d.kind = "ymd"
        /\ d.day * TicksPerDay <= tab[i].timestamp.ticks
        /\ tab[i].timestamp.ticks < (d.day + 1) * TicksPerDay}

\* The rows I of tab whose column col holds v.
With(tab, I, col, v) == {i \in I : tab[i][col] = v}

\* p's last call was get_daily_report and every query of it ran.
FullReport(p) ==
    /\ outcome[p].op = "get_daily_report"
    /\ outcome[p].result = "returned"
    /\ outcome[p].step = "none"

\* C11: get_daily_report(date) counts only the events stored on the calendar
\* day `date`: none of total_visits, unique_visitors, top_pages, referrers and
\* conversions counts an event of another day, the seconds around midnight
\* included.
C11_OnlyEventsOfTheDay ==
    \A p \in Procs :
        FullReport(p) =>
            LET r == outcome[p].value
                pv == OnDay(page_views, r.date)
                cv == OnDay(conversions, r.date)
            IN  /\ r.total_visits <= Cardinality(pv)
                /\ r.unique_visitors <=
                       Cardinality({page_views[i].session_id : i \in pv})
                /\ \A j \in 1..Len(r.top_pages) :
                       /\ r.top_pages[j].views >= 1
                       /\ r.top_pages[j].views <=
                            Cardinality(With(page_views, pv, "page_url",
                                             r.top_pages[j].page))
                /\ \A j \in 1..Len(r.referrers) :
                       /\ r.referrers[j].visits >= 1
                       /\ r.referrers[j].visits <=
                            Cardinality(With(page_views, pv, "referrer",
                                             r.referrers[j].referrer))
                /\ r.conversions <= Cardinality(cv)

\* A report of a day with one view in its first second, the store holding
\* another view in the last second of the day before.
C11_Witness ==
    \E p \in Procs :
        /\ FullReport(p)
        /\ outcome[p].value.date.kind = "ymd"
        /\ LET start == outcome[p].value.date.day * TicksPerDay
           IN  /\ \E i \in 1..Len(page_views) :
                      page_views[i].timestamp.ticks = start - TicksPerSec
               /\ \E i \in 1..Len(page_views) :
                      page_views[i].timestamp.ticks = start
        /\ outcome[p].value.total_visits = 1
        /\ Len(outcome[p].value.top_pages) = 1

\* C12: whatever the store holds, views stored without a session_id included,
\* unique_visitors of the report is the number of distinct session_id values
\* among the page views of the day.
C12_UniqueVisitorsCountsSessionIds ==
    \A p \in Procs :
        FullReport(p) =>
            outcome[p].value.unique_visitors =
                Cardinality({page_views[i].session_id :
                                i \in OnDay(page_views, outcome[p].value.date)})

\* C13: in every report total_visits is a count of the day's page-view rows
\* and the page_views field equals total_visits, also when a track_page_view
\* call commits between the queries of the report.
C13_PageViewsEqualsTotalVisits ==
    \A p \in Procs :
        FullReport(p) =>
            /\ outcome[p].value.total_visits <=
                   Cardinality(OnDay(page_views, outcome[p].value.date))
            /\ outcome[p].value.page_views = outcome[p].value.total_visits

Min(a, b) == IF a <= b THEN a ELSE b

\* C14: top_pages has at most 10 entries and is sorted by view count in
\* non-increasing order, whatever order the page views were inserted in.
C14_TopPagesSortedAtMostTen ==
    \A p \in Procs :
        FullReport(p) =>
            LET tp == outcome[p].value.top_pages
            IN  /\ Len(tp) <= 10
                /\ \A j \in 1..Len(tp), k \in 1..Len(tp) :
                       j < k => tp[j].views >= tp[k].views

\* Counts 5, 5, 3 with the count-3 page inserted first, or eleven pages with
\* the one viewed twice inserted last.
C14_Witness ==
    \E p \in Procs :
        /\ FullReport(p)
        /\ LET tp == outcome[p].value.top_pages
           IN  \/ /\ Len(tp) = 3
                  /\ tp[1].views = 5 /\ tp[2].views = 5 /\ tp[3].views = 3
                  /\ page_views[1].page_url = tp[3].page
               \/ /\ Len(tp) = 10
                  /\ Len(page_views) = 12
                  /\ tp[1].views = 2 /\ tp[2].views = 1
                  /\ page_views[12].page_url = tp[1].page

\* C15: each entry of top_pages reports a distinct url with exactly the number
\* of the day's page views of that url, the urls reported are the most viewed
\* ones up to ten, and no url left out has more views than a url reported.
C15_TopPagesExactCounts ==
    \A p \in Procs :
        FullReport(p) =>
            LET tp == outcome[p].value.top_pages
                pv == OnDay(page_views, outcome[p].value.date)
                urls == {page_views[i].page_url : i \in pv}
                views(u) == Cardinality(With(page_views, pv, "page_url", u))
                shown == {tp[j].page : j \in 1..Len(tp)}
            IN  /\ \A j \in 1..Len(tp), k \in 1..Len(tp) :
                       j # k => tp[j].page # tp[k].page
                /\ \A j \in 1..Len(tp) :
                       /\ tp[j].page \in urls
                       /\ tp[j].views = views(tp[j].page)
                /\ Len(tp) = Min(10, Cardinality(urls))
                /\ \A u \in urls \ shown, v \in shown : views(u) <= views(v)

\* Session s1 viewed /a three times and /b once on the day of the report.
C15_Witness ==
    \E p \in Procs :
        /\ FullReport(p)
        /\ Len(page_views) = 4
        /\ outcome[p].value.unique_visitors = 1
        /\ outcome[p].value.total_visits = 4
        /\ outcome[p].value.top_pages =
               <<[page |-> "/a", views |-> 3], [page |-> "/b", views |-> 1]>>

\* C16: referrers groups the day's page views that have a non-empty referrer
\* by referrer, with each referrer's exact count, sorted by count in
\* non-increasing order, at most 10 entries, none for an empty or missing
\* referrer.
C16_ReferrersExactCounts ==
    \A p \in Procs :
        FullReport(p) =>
            LET rf == outcome[p].value.referrers
                pv == OnDay(page_views, outcome[p].value.date)
                refs == {page_views[i].referrer : i \in pv} \ {"", None}
                visits(u) == Cardinality(With(page_views, pv, "referrer", u))
                shown == {rf[j].referrer : j \in 1..Len(rf)}
            IN  /\ shown \subseteq refs
                /\ \A j \in 1..Len(rf), k \in 1..Len(rf) :
                       j # k => rf[j].referrer # rf[k].referrer
                /\ \A j \in 1..Len(rf) : rf[j].visits = visits(rf[j].referrer)
                /\ \A j \in 1..Len(rf), k \in 1..Len(rf) :
                       j < k => rf[j].visits >= rf[k].visits
                /\ Len(rf) = Min(10, Cardinality(refs))
                /\ \A u \in refs \ shown, v \in shown : visits(u) <= visits(v)

\* The day's views carry an empty, a missing and a given referrer, and the
\* report lists the given one alone.
C16_Witness ==
    \E p \in Procs :
        /\ FullReport(p)
        /\ LET pv == OnDay(page_views, outcome[p].value.date)
           IN  /\ \E i \in pv : page_views[i].referrer = ""
               /\ \E i \in pv : page_views[i].referrer = None
               /\ Cardinality(With(page_views, pv, "referrer", "g")) = 2
        /\ outcome[p].value.referrers = <<[referrer |-> "g", visits |-> 2]>>

\* C17: the conversions field of the report is the number of conversion rows
\* stored on the day, whatever their conversion_type, conversion_value,
\* session_id or form_data.
C17_ConversionsCountsRows ==
    \A p \in Procs :
        FullReport(p) =>
            outcome[p].value.conversions =
                Cardinality(OnDay(conversions, outcome[p].value.date))

\* Two conversions of different types, values, sessions and form data, both
\* on the day of the report.
C17_Witness ==
    \E p \in Procs :
        /\ FullReport(p)
        /\ outcome[p].value.conversions = 2
        /\ Len(conversions) = 2
        /\ conversions[1].conversion_type # conversions[2].conversion_type
        /\ conversions[1].conversion_value # conversions[2].conversion_value
        /\ conversions[1].session_id # conversions[2].session_id
        /\ conversions[1].form_data # conversions[2].form_data

\* ------------------------------------------- claims on the window and export
Max(a, b) == IF a >= b THEN a ELSE b

\* The step is p's get_popular_pages returning the list its query gave.
PopularReturned(p) ==
    /\ pc[p] = "pp_query"
    /\ pc'[p] = "idle"
    /\ outcome'[p].op = "get_popular_pages"
    /\ outcome'[p].step = "none"

\* The rows of tab stored within the `days` days that end at instant c.
InWindow(tab, c, days) ==
    {i \in 1..Len(tab) : /\ c - days * TicksPerDay <= tab[i].timestamp.ticks
                         /\ tab[i].timestamp.ticks <= c}

\* C18: get_popular_pages(days, limit) groups exactly the page views stored in
\* the window [now - days, now]: each entry counts the views of its url inside
\* the window, none older than now - days, and every url viewed inside the
\* window is listed unless the limit cut the list.
C18_WindowIsLastDays ==
    [][\A p \in Procs :
          PopularReturned(p) =>
              LET res == outcome'[p].value
                  win == InWindow(page_views, call[p].now, call[p].data.days)
                  shown == {res[j].page_url : j \in 1..Len(res)}
              IN  /\ \A j \in 1..Len(res) :
                         res[j].total_views =
                             Cardinality(With(page_views, win, "page_url",
                                              res[j].page_url))
                  /\ \A i \in win :
                         \/ page_views[i].page_url \in shown
                         \/ Len(res) >= call[p].data.limit
      ]_vars

\* C19: for every integer limit get_popular_pages returns at most `limit`
\* entries sorted by total_views in non-increasing order, and each entry's
\* unique_visitors is the number of distinct session_id values among the
\* counted views of its page, between 1 and total_views.
C19_PopularPagesWithinLimit ==
    [][\A p \in Procs :
          PopularReturned(p) =>
              LET res == outcome'[p].value
                  counted == RowsSince(page_views,
                                       CutoffDate(call[p].now, tz,
                                                  call[p].data.days))
              IN  /\ Len(res) <= Max(call[p].data.limit, 0)
                  /\ \A j \in 1..Len(res), k \in 1..Len(res) :
                         j < k => res[j].total_views >= res[k].total_views
                  /\ \A j \in 1..Len(res) :
                         /\ res[j].unique_visitors =
                              Cardinality({page_views[i].session_id :
                                  i \in With(page_views, counted, "page_url",
                                             res[j].page_url)})
                         /\ 1 <= res[j].unique_visitors
                         /\ res[j].unique_visitors <= res[j].total_views
      ]_vars

DigitValue(ch) == CHOOSE d \in 0..9 : DigitChar[d + 1] = ch

\* int() of a text of decimal digits.
RECURSIVE ParseInt(_)
ParseInt(txt) ==
    IF Len(txt) = 1 THEN DigitValue(txt[1])
    ELSE 10 * ParseInt(SubSeq(txt, 1, Len(txt) - 1)) + DigitValue(txt[Len(txt)])

\* The second field of the csv line whose first field is `metric`.
CsvValue(lines, metric) ==
    LET n == CHOOSE i \in 1..Len(lines) :
                 Len(lines[i]) >= 3 /\ lines[i][1] = metric /\ lines[i][2] = ","
    IN  SubSeq(lines[n], 3, Len(lines[n]))

\* p's last call was export_data and it returned the csv text.
CsvExported(p) ==
    /\ outcome[p].op = "export_data"
    /\ outcome[p].result = "returned"
    /\ outcome[p].value.format = "csv"

\* C20: the integer parsed back from the 'Total Visits' row of a csv export is
\* the total_visits of the report that was exported.
C20_TotalVisitsRoundTrip ==
    \A p \in Procs :
        CsvExported(p) =>
            ParseInt(CsvValue(outcome[p].value.lines, "Total Visits")) =
                outcome[p].value.data.summary.total_visits

\* A csv export of a report with a two-digit total_visits that differs from
\* its unique_visitors.
C20_Witness ==
    \E p \in Procs :
        /\ CsvExported(p)
        /\ outcome[p].value.data.summary.total_visits >= 10
        /\ outcome[p].value.data.summary.total_visits #
               outcome[p].value.data.summary.unique_visitors
        /\ CsvValue(outcome[p].value.lines, "Total Visits") =
               Digits(outcome[p].value.data.summary.total_visits)

\* ------------------------------------------------- claims on the whole store
\* seq holds the rows of old, unchanged and in their places.
Extends(seq, old) ==
    /\ Len(seq) >= Len(old)
    /\ \A i \in 1..Len(old) : seq[i] = old[i]

ReadOps == {"get_daily_report", "get_popular_pages", "export_data"}

\* The operation whose step p takes, "none" when p does not move.
StepOp(p) ==
    IF pc'[p] = pc[p] /\ outcome'[p] = outcome[p] /\ call'[p] = call[p]
    THEN "none"
    ELSE IF call[p].op # "none" THEN call[p].op
    ELSE IF call'[p].op # "none" THEN call'[p].op
    ELSE outcome'[p].op

\* C21: page-view and conversion rows are append-only and immutable and
\* sessions are never deleted: every step of tracking, reporting, exporting
\* and the /api/analytics/update endpoint keeps every stored page-view and
\* conversion row with its field values and every session row's session.
C21_RowsAppendOnly ==
    [][/\ Extends(page_views', page_views)
       /\ Extends(conversions', conversions)
       /\ Len(sessions') >= Len(sessions)
       /\ \A i \in 1..Len(sessions) :
              sessions'[i].session_id = sessions[i].session_id
      ]_vars

\* A page view was stored and the update endpoint, a report or an export that
\* saw it was served.
C21_Witness ==
    /\ Len(page_views) = 1
    /\ Len(sessions) = 1
    /\ \E p \in Procs :
           /\ outcome[p].op = "track_page_view"
           /\ outcome[p].stored
    /\ \E p \in Procs :
           \/ outcome[p].op = "api_analytics_update"
           \/ /\ outcome[p].op = "get_popular_pages"
              /\ outcome[p].step = "none"
              /\ Len(outcome[p].value) = 1

\* C22: get_daily_report, get_popular_pages and export_data are read-only:
\* every step of theirs leaves page_views, sessions, conversions and
\* daily_stats as they are, and takes no lock on the store.
C22_ReadsChangeNothing ==
    [][\A p \in Procs :
          StepOp(p) \in ReadOps =>
              UNCHANGED <<page_views, sessions, conversions, daily_stats,
                          lock, txn>>
      ]_vars

\* An export, with its report and its popular pages, returned on a store that
\* holds a page view.
C22_Witness ==
    /\ Len(page_views) = 1
    /\ daily_stats = <<>>
    /\ \E p \in Procs :
           /\ outcome[p].op = "export_data"
           /\ outcome[p].result = "returned"
           /\ Len(outcome[p].value.data.popular_pages) = 1

\* C24: every store operation releases its handle on every exit path: no
\* connection is open once track_page_view, track_conversion,
\* get_daily_report, get_popular_pages and export_data have returned or
\* raised and no call is running.
C24_NoOpenHandleAfterReturn ==
    AllIdle => handles = 0

\* ------------------------------------------------ claims on payload fields
\* C23: track_page_view rejects no payload for missing fields: whichever
\* event fields are absent, the stored call appends exactly one page-view row
\* that holds the fields given, and for each absent field the empty value
\* (text) or zero (numeric).
C23_MissingFieldsDefaultToEmpty ==
    [][\A p \in Procs :
          Stored(p, "track_page_view") =>
              /\ Len(page_views') = Len(page_views) + 1
              /\ LET row == page_views'[Len(page_views')]
                     data == call[p].data
                 IN  \A k \in EventFields :
                        IF k \in DOMAIN data THEN row[k] = data[k]
                        ELSE IF k \in NumericFields THEN row[k] = 0
                        ELSE row[k] \in {"", None}
      ]_vars

\* C25: the first stored track_page_view of a session_id inserts its session
\* with total_views = 1 and first_visit equal to last_visit; a later one
\* changes last_visit and total_views only, the other columns keeping the
\* values of the first event.
C25_UpsertTouchesTwoColumns ==
    [][\A p \in Procs :
          Stored(p, "track_page_view") =>
              LET s == Get(call[p].data, "session_id", None)
              IN  s \in SessionIds =>
                    \A i \in RowsOf(sessions', s) :
                       IF RowsOf(sessions, s) = {}
                       THEN /\ sessions'[i].total_views = 1
                            /\ sessions'[i].first_visit = sessions'[i].last_visit
                       ELSE sessions'[i] =
                              [sessions[i] EXCEPT
                                 !.last_visit = sessions'[i].last_visit,
                                 !.total_views = sessions'[i].total_views]
      ]_vars

\* ------------------------------------------------- claims on failing reads
\* C26: get_daily_report with a date that is no calendar date, or with a
\* query that fails, raises nothing and returns the default report: the date
\* given, zero counts and empty lists; get_popular_pages returns the empty list
\* when its query fails.
C26_FailedReadGivesDefault ==
    \A p \in Procs :
        /\ (outcome[p].op = "get_daily_report" /\ outcome[p].result = "returned"
            /\ (outcome[p].value.date = BadDate \/ outcome[p].step # "none"))
           => outcome[p].value = DefaultReport(outcome[p].value.date)
        /\ (outcome[p].op = "get_popular_pages" /\ outcome[p].result = "returned"
            /\ outcome[p].step # "none")
           => outcome[p].value = <<>>

\* C27: in every reachable state, whatever tracking calls succeeded or failed,
\* the total_views of all session rows add up to the number of page-view rows
\* and every page-view row has a session row of its session_id.
C27_ViewsAddUp ==
    /\ SumViews(sessions, 1..Len(sessions)) = Len(page_views)
    /\ \A i \in 1..Len(page_views) :
           RowsOf(sessions, page_views[i].session_id) # {}

\* Two page views of one session and its session row counting both.
C27_Witness ==
    /\ Len(page_views) = 2
    /\ Len(sessions) = 1
    /\ sessions[1].total_views = 2
    /\ page_views[1].session_id = sessions[1].session_id
    /\ page_views[2].session_id = sessions[1].session_id

\* The field is missing from the form or empty.
Blank(form, k) == k \notin DOMAIN form \/ Len(form[k]) = 0

\* The characters of a text.
CharsOf(txt) == {txt[i] : i \in 1..Len(txt)}

\* The form has one of the errors validation looks for: a required field
\* missing or empty, an email without '@', or a phone that is not digits
\* once spaces, '-' and '+' are taken out.
HasError(form) ==
    \/ \E k \in {"name", "email", "message"} : Blank(form, k)
    \/ "@" \notin CharsOf(form["email"])
    \/ /\ ~Blank(form, "phone")
       /\ LET rest == CharsOf(form["phone"]) \ {" ", "-", "+"}
          IN  \/ rest = {}
              \/ ~(rest \subseteq {"0", "1", "2", "3", "4", "5", "6", "7",
                                   "8", "9"})

\* A call of process_form has returned to p.
Processed(p) == request[p].state = "processed"

\* C28: process_form returns success = False with a non-empty errors list
\* exactly when the form has a validation error, and then no submission file
\* is saved and no email sent; a form that passes validation gets
\* success = True whatever became of the save and of the two emails.
C28_RejectedExactlyOnError ==
    \A p \in Procs :
        Processed(p) =>
            IF HasError(request[p].form)
            THEN /\ request[p].result.success = FALSE
                 /\ Len(request[p].result.errors) > 0
                 /\ DOMAIN submissions = {}
                 /\ Len(outbox) = 0
            ELSE request[p].result.success = TRUE

\* A valid form whose save and both emails failed is answered success = True.
C28_Witness ==
    \E p \in Procs :
        /\ Processed(p)
        /\ ~HasError(request[p].form)
        /\ request[p].result.success
        /\ request[p].result.submission_id = NoFile
        /\ ~request[p].result.email_sent
        /\ ~request[p].result.auto_reply_sent
        /\ "phone" \in DOMAIN request[p].form

\* No request to /api/contact is being served.
NoneInService ==
    \A p \in Procs : pc[p] = "idle" /\ request[p].state \in {"none", "answered"}

\* The conversions of type 'contact_form' recorded for session s.
ContactConversions(s) ==
    {i \in 1..Len(conversions) :
        /\ conversions[i].conversion_type = "contact_form"
        /\ conversions[i].session_id = s}

\* The requests answered without an exception, over all handlers.
RECURSIVE Answered(_)
Answered(P) ==
    IF P = {} THEN 0
    ELSE LET p == CHOOSE q \in P : TRUE
         IN  request[p].answered + Answered(P \ {p})

\* C29: every request to /api/contact that is answered without an exception
\* has recorded exactly one 'contact_form' conversion for its session,
\* accepted or rejected alike: once no request is in service the conversions
\* are as many as the requests so answered, and each answered request finds
\* a conversion of its session.
C29_OneConversionPerRequest ==
    NoneInService =>
        /\ Cardinality(ContactConversions("s1"))
             + Cardinality(ContactConversions("unknown")) = Answered(Procs)
        /\ \A p \in Procs :
              request[p].status = 200 =>
                  ContactConversions(request[p].session) # {}

\* The filenames returned by save_submission, over all handlers.
RECURSIVE Saves(_)
Saves(P) ==
    IF P = {} THEN 0
    ELSE LET p == CHOOSE q \in P : TRUE
         IN  request[p].saves + Saves(P \ {p})

\* Every call of save_submission so far has returned a filename, and none
\* stands between opening its file and returning.
AllSavesSucceeded ==
    \A p \in Procs :
        request[p].save_errors = 0 /\ request[p].state # "save_write"

\* The file is a submission and holds the form.
Holds(file, form) == "form" \in DOMAIN file /\ file.form = form

\* C30: no saved submission is overwritten: after successful calls of
\* save_submission there are as many submission files as calls that returned
\* a filename, and the file named by a returned submission_id holds the form
\* of that call.
C30_NoSubmissionOverwritten ==
    AllSavesSucceeded =>
        /\ Cardinality(DOMAIN submissions) = Saves(Procs)
        /\ \A p \in Procs :
              request[p].saved_file # NoFile =>
                  /\ request[p].saved_file \in DOMAIN submissions
                  /\ Holds(submissions[request[p].saved_file],
                           request[p].form)

====
